---- MODULE Spec2Model ----
(***************************************************************************)
(* A model of downloader.py (class YouTubeDownloader): the format catalog  *)
(* built by extract_formats, and the download call with its progress hook. *)
(*                                                                         *)
(* Spec          one catalog query: extract_formats on a raw descriptor    *)
(*               list of up to MaxFormats descriptors.                     *)
(* DownloadSpec  one download call: the options built, the engine's calls  *)
(*               of the progress hook (up to MaxEvents), the engine        *)
(*               raising or returning, and the file resolution.            *)
(*                                                                         *)
(* Python str values that the code inspects character by character         *)
(* (upper, startswith, re.search, "in", f-strings) are sequences of        *)
(* one-character strings; str values it only copies or compares (codec     *)
(* names, the 'type' and 'ext' fields, statuses) are TLA+ strings.  A      *)
(* Python dict is a function whose DOMAIN is the set of keys it holds: a   *)
(* raw descriptor holds a key with a value or does not hold the key.       *)
(***************************************************************************)
EXTENDS Naturals, Integers, Sequences, FiniteSets, TLC

VARIABLES
    info,               \* info['formats']: the raw descriptors the engine returned
    formats,            \* extract_formats' local list, as handed to deduplicate_and_sort_formats
    catalog,            \* what extract_formats did: pending, returned a list, or raised
    cookies_file,       \* self.cookies_file: <<>> for None, else <<path>>
    url,                \* download's url (after fix_shorts_url once the call is under way)
    format_id,          \* download's format_id
    download_type,      \* download's download_type
    progress_callback,  \* whether download was given an observer
    pc,                 \* where the download call is: called, engine, returned, raised
    ydl_opts,           \* the engine configuration download built (<<>> before it is built)
    hooked,             \* the engine's calls of progress_hook: the raw event and what the hook made of it
    events,             \* the ProgressEvents the observer received, in order
    filename,           \* ydl.prepare_filename(info): <<>> until the engine returned
    files,              \* the paths that exist when the engine returned
    result              \* what download returned: pending, a path, or None

catalog_vars == <<info, formats, catalog>>

download_vars ==
    <<cookies_file, url, format_id, download_type, progress_callback, pc, ydl_opts,
      hooked, events, filename, files, result>>

vars == <<catalog_vars, download_vars>>

----------------------------------------------------------------------------
(* str primitives                                                          *)

LowerCase == <<"a","b","c","d","e","f","g","h","i","j","k","l","m","n","o","p","q","r","s","t","u","v","w","x","y","z">>
UpperCase == <<"A","B","C","D","E","F","G","H","I","J","K","L","M","N","O","P","Q","R","S","T","U","V","W","X","Y","Z">>
Digits == <<"0","1","2","3","4","5","6","7","8","9">>

IndexIn(c, s) ==
    IF \E i \in 1..Len(s) : s[i] = c THEN CHOOSE i \in 1..Len(s) : s[i] = c ELSE 0

\* str.upper()
upper(s) ==
    [i \in 1..Len(s) |->
        LET k == IndexIn(s[i], LowerCase) IN IF k = 0 THEN s[i] ELSE UpperCase[k]]

IsDigit(c) == IndexIn(c, Digits) # 0

\* str(n) / f"{n}" for a non-negative int
RECURSIVE str(_)
str(n) ==
    IF n < 10 THEN <<Digits[n + 1]>> ELSE str(n \div 10) \o <<Digits[(n % 10) + 1]>>

\* int(s) for a string of decimal digits
RECURSIVE int(_)
int(s) ==
    IF s = <<>> THEN 0
    ELSE int(SubSeq(s, 1, Len(s) - 1)) * 10 + (IndexIn(s[Len(s)], Digits) - 1)

\* s.startswith(prefix)
startswith(s, prefix) ==
    Len(s) >= Len(prefix) /\ SubSeq(s, 1, Len(prefix)) = prefix

\* sub in s
contains(s, sub) ==
    \E i \in 0..(Len(s) - Len(sub)) : SubSeq(s, i + 1, i + Len(sub)) = sub

\* dict.get(key, default)
Get(d, key, default) == IF key \in DOMAIN d THEN d[key] ELSE default

\* the end of the run of digits that starts at s[i]
RunEnd(s, i) ==
    CHOOSE j \in i..Len(s) :
        /\ \A k \in i..j : IsDigit(s[k])
        /\ j = Len(s) \/ ~IsDigit(s[j + 1])

\* re.search(r'(\d+)p', s): <<>> when nothing matches, else <<group(1)>> of the
\* leftmost match (the greedy \d+ takes the whole run of digits before the "p")
re_search_digits_p(s) ==
    LET hits == {i \in 1..Len(s) :
                    /\ IsDigit(s[i])
                    /\ RunEnd(s, i) < Len(s)
                    /\ s[RunEnd(s, i) + 1] = "p"}
    IN  IF hits = {} THEN <<>>
        ELSE LET i == CHOOSE h \in hits : \A g \in hits : h <= g
             IN  <<SubSeq(s, i, RunEnd(s, i))>>

----------------------------------------------------------------------------
(* format_filesize                                                         *)

SizeUnits == <<<<"B">>, <<"K","B">>, <<"M","B">>, <<"G","B">>>>

RECURSIVE Pow1024(_)
Pow1024(k) == IF k = 0 THEN 1 ELSE 1024 * Pow1024(k - 1)

\* f"{x:.1f}" for x = n / d: the nearest tenth (n and d are integers and d a
\* power of 1024, so x is exact as a float and never halfway between tenths
\* unless it is a tenth itself)
OneDecimal(n, d) ==
    LET tenths == 10 * (n \div d) + (10 * (n % d) + d \div 2) \div d
    IN  str(tenths \div 10) \o <<".">> \o str(tenths % 10)

\* size_bytes is <<>> for None / a missing key, else <<n>>
format_filesize(size_bytes) ==
    IF size_bytes = <<>> \/ size_bytes[1] = 0 THEN <<"U","n","k","n","o","w","n">>
    ELSE LET n == size_bytes[1]
             fits == {k \in 1..Len(SizeUnits) : n \div Pow1024(k - 1) < 1024}
         IN  IF fits = {} THEN OneDecimal(n, Pow1024(Len(SizeUnits))) \o <<" ","T","B">>
             ELSE LET k == CHOOSE f \in fits : \A g \in fits : f <= g
                  IN  OneDecimal(n, Pow1024(k - 1)) \o <<" ">> \o SizeUnits[k]

----------------------------------------------------------------------------
(* The catalog: create_format_info .. deduplicate_and_sort_formats         *)

resolution_map ==
    { <<<<"1","4","4","P">>, 144>>, <<<<"2","4","0","P">>, 240>>, <<<<"3","6","0","P">>, 360>>, <<<<"4","8","0","P">>, 480>>,
      <<<<"7","2","0","P">>, 720>>, <<<<"1","0","8","0","P">>, 1080>>, <<<<"1","4","4","0","P">>, 1440>>, <<<<"2","1","6","0","P">>, 2160>>,
      <<<<"4","3","2","0","P">>, 4320>>, <<<<"4","K">>, 2160>>, <<<<"2","K">>, 1440>>,
      <<<<"B","E","S","T">>, 10000>>, <<<<"N","/","A">>, 0>>, <<<<"M","P","3"," ","A","U","D","I","O"," ","(","1","9","2","K","B","P","S",")">>, 1>> }

\* resolution_map.get(key, default)
MapGet(map, key, default) ==
    IF \E e \in map : e[1] = key THEN (CHOOSE e \in map : e[1] = key)[2] ELSE default

get_quality_value(resolution, format_dict) ==
    LET resolution_upper == upper(resolution)
        q0 == MapGet(resolution_map, resolution_upper, 0)
        match == IF q0 = 0 THEN re_search_digits_p(resolution_upper) ELSE <<>>
        q1 == IF q0 = 0 /\ match # <<>> THEN int(match[1]) ELSE q0
    IN  IF q1 = 0 /\ Get(format_dict, "height", 0) # 0 THEN format_dict["height"] ELSE q1

\* format_dict.get('vcodec') != 'none': a missing codec key counts as present
has_video(format_dict) == Get(format_dict, "vcodec", "") # "none"
has_audio(format_dict) == Get(format_dict, "acodec", "") # "none"

get_format_type(format_dict) ==
    IF has_video(format_dict) /\ has_audio(format_dict) THEN "video+audio"
    ELSE IF has_video(format_dict) THEN "video"
    ELSE IF has_audio(format_dict) THEN "audio"
    ELSE "unknown"

unknown_note == <<"u","n","k","n","o","w","n">>

\* a build that leaves the (4K) / (2K) annotation out
annotate_resolution_off(format_note, height) == format_note

\* "Detect 4K formats": the label of a descriptor of height >= 1440
annotate_resolution(format_note, height) ==
    IF height >= 2160 THEN str(height) \o <<"p"," ","(","4","K",")">>
    ELSE IF height >= 1440 THEN str(height) \o <<"p"," ","(","2","K",")">>
    ELSE format_note

\* [tag |-> "None"] for a storyboard, [tag |-> "KeyError"] when
\* format_dict['format_id'] raises, else [tag |-> "dict", value |-> the dict]
create_format_info(format_dict) ==
    LET height == Get(format_dict, "height", 0)
        note0 == Get(format_dict, "format_note", unknown_note)
        note1 == IF note0 = unknown_note /\ height # 0 THEN str(height) \o <<"p">> ELSE note0
        format_note == annotate_resolution(note1, height)
    IN  IF startswith(Get(format_dict, "format_id", <<>>), <<"s","b">>) THEN [tag |-> "None"]
        ELSE IF "format_id" \notin DOMAIN format_dict THEN [tag |-> "KeyError"]
        ELSE [tag |-> "dict",
              value |->
                [format_id |-> format_dict["format_id"],
                 ext |-> Get(format_dict, "ext", "mp4"),
                 resolution |-> IF format_note # unknown_note THEN upper(format_note) ELSE <<"N","/","A">>,
                 filesize |-> format_filesize(IF "filesize" \in DOMAIN format_dict THEN <<format_dict["filesize"]>> ELSE <<>>),
                 type |-> get_format_type(format_dict),
                 quality |-> get_quality_value(format_note, format_dict),
                 has_audio |-> has_audio(format_dict),
                 has_video |-> has_video(format_dict)]]

\* format_info never holds an 'abr' key, so .get('abr', 0) is the default
is_valid_format(format_info) ==
    IF ~format_info.has_video /\ ~format_info.has_audio THEN FALSE
    ELSE IF format_info.type = "audio" /\ Get(format_info, "abr", 0) < 50 THEN FALSE
    ELSE TRUE

\* a sort that is not stable: an element goes before the elements of its own key
RECURSIVE sort_reverse_unstable(_)
sort_reverse_unstable(pairs) ==
    IF pairs = <<>> THEN <<>>
    ELSE LET front == sort_reverse_unstable(SubSeq(pairs, 1, Len(pairs) - 1))
             x == pairs[Len(pairs)]
             n == Cardinality({i \in 1..Len(front) : front[i][1] > x[1]})
         IN  SubSeq(front, 1, n) \o <<x>> \o SubSeq(front, n + 1, Len(front))

\* list.sort(key=..., reverse=True) on a list of <<key, element>> pairs: stable,
\* so an element goes after every element whose key is at least its own
RECURSIVE sort_reverse(_)
sort_reverse(pairs) ==
    IF pairs = <<>> THEN <<>>
    ELSE LET front == sort_reverse(SubSeq(pairs, 1, Len(pairs) - 1))
             x == pairs[Len(pairs)]
             n == Cardinality({i \in 1..Len(front) : front[i][1] >= x[1]})
         IN  SubSeq(front, 1, n) \o <<x>> \o SubSeq(front, n + 1, Len(front))

\* s.sort(key=lambda x: x.get(key, 0), reverse=True) for a list of dicts
sort_by(s, key) ==
    LET sorted == sort_reverse([i \in 1..Len(s) |-> <<Get(s[i], key, 0), s[i]>>])
    IN  [i \in 1..Len(s) |-> sorted[i][2]]

ultra_4k ==
    [format_id |-> <<"b","e","s","t","v","i","d","e","o","[","h","e","i","g","h","t",">","=","2","1","6","0","]","+","b","e","s","t","a","u","d","i","o","/","b","e","s","t","[","h","e","i","g","h","t",">","=","2","1","6","0","]">>,
     ext |-> "mp4", resolution |-> <<"4","K"," ","U","L","T","R","A"," ","(","+","A","U","D","I","O",")">>, filesize |-> <<"U","n","k","n","o","w","n">>,
     type |-> "video+audio", quality |-> 5000]

\* a combined option scored by its height alone
combined_option_no_bonus(video_fmt) ==
    [format_id |-> video_fmt["format_id"] \o <<"+","b","e","s","t","a","u","d","i","o">>,
     ext |-> "mp4",
     resolution |-> str(Get(video_fmt, "height", 0)) \o <<"p"," ","(","+","A","U","D","I","O",")">>,
     filesize |-> <<"U","n","k","n","o","w","n">>,
     type |-> "video+audio",
     quality |-> Get(video_fmt, "height", 0)]

combined_option(video_fmt) ==
    [format_id |-> video_fmt["format_id"] \o <<"+","b","e","s","t","a","u","d","i","o">>,
     ext |-> "mp4",
     resolution |-> str(Get(video_fmt, "height", 0)) \o <<"p"," ","(","+","A","U","D","I","O",")">>,
     filesize |-> <<"U","n","k","n","o","w","n">>,
     type |-> "video+audio",
     quality |-> Get(video_fmt, "height", 0) + 1000]

\* [tag |-> "KeyError"] when video_fmt['format_id'] raises, else
\* [tag |-> "list", value |-> combined]
create_combined_formats(all_formats) ==
    LET video_only(f) == Get(f, "vcodec", "") # "none" /\ Get(f, "acodec", "") = "none"
        video_formats == sort_by(SelectSeq(all_formats, video_only), "height")
        wanted(f) == Get(f, "height", 0) >= 360
        picked == SelectSeq(video_formats, wanted)
    IN  IF \E i \in 1..Len(picked) : "format_id" \notin DOMAIN picked[i]
        THEN [tag |-> "KeyError"]
        ELSE [tag |-> "list",
              value |-> [i \in 1..Len(picked) |-> combined_option(picked[i])] \o <<ultra_4k>>]

\* a deduplication by identifier
dedup_key_by_id(f) == <<f.format_id>>

dedup_key(f) == <<f.resolution, f.type, f.quality>>

\* the loop of deduplicate_and_sort_formats: the first option of each key
RECURSIVE unique_formats(_)
unique_formats(fs) ==
    IF fs = <<>> THEN <<>>
    ELSE LET front == unique_formats(SubSeq(fs, 1, Len(fs) - 1))
             f == fs[Len(fs)]
         IN  IF \E i \in 1..Len(front) : dedup_key(front[i]) = dedup_key(f)
             THEN front ELSE Append(front, f)

deduplicate_and_sort_formats(fs) == sort_by(unique_formats(fs), "quality")

mp3_option ==
    [format_id |-> <<"m","p","3">>, ext |-> "mp3", resolution |-> <<"M","P","3"," ","A","u","d","i","o"," ","(","1","9","2","k","b","p","s",")">>,
     filesize |-> <<"U","n","k","n","o","w","n">>, type |-> "audio", quality |-> 1]

auto_formats ==
    << [format_id |-> <<"b","e","s","t">>, ext |-> "mp4", resolution |-> <<"B","E","S","T"," ","(","A","u","t","o"," ","S","e","l","e","c","t",")">>,
        filesize |-> <<"U","n","k","n","o","w","n">>, type |-> "video+audio", quality |-> 10000],
       [format_id |-> <<"b","e","s","t","v","i","d","e","o","+","b","e","s","t","a","u","d","i","o">>, ext |-> "mp4",
        resolution |-> <<"B","E","S","T"," ","V","I","D","E","O"," ","+"," ","B","E","S","T"," ","A","U","D","I","O"," ","(","4","K"," ","R","e","a","d","y",")">>,
        filesize |-> <<"U","n","k","n","o","w","n">>, type |-> "video+audio", quality |-> 15000],
       [format_id |-> <<"b","e","s","t","v","i","d","e","o","[","h","e","i","g","h","t","<","=","1","0","8","0","]","+","b","e","s","t","a","u","d","i","o","/","b","e","s","t","[","h","e","i","g","h","t","<","=","1","0","8","0","]">>, ext |-> "mp4",
        resolution |-> <<"1","0","8","0","p"," ","M","A","X"," ","(","A","u","t","o"," ","M","e","r","g","e",")">>,
        filesize |-> <<"U","n","k","n","o","w","n">>, type |-> "video+audio", quality |-> 1080],
       [format_id |-> <<"b","e","s","t","v","i","d","e","o","[","h","e","i","g","h","t","<","=","2","1","6","0","]","+","b","e","s","t","a","u","d","i","o","/","b","e","s","t","[","h","e","i","g","h","t","<","=","2","1","6","0","]">>, ext |-> "mp4",
        resolution |-> <<"4","K"," ","M","A","X"," ","(","A","u","t","o"," ","M","e","r","g","e",")">>,
        filesize |-> <<"U","n","k","n","o","w","n">>, type |-> "video+audio", quality |-> 2160] >>

\* the "for f in info.get('formats', [])" loop: [tag |-> "KeyError"] when
\* create_format_info raises, else [tag |-> "list", value |-> the options kept]
RECURSIVE process_formats(_)
process_formats(fs) ==
    IF fs = <<>> THEN [tag |-> "list", value |-> <<>>]
    ELSE LET r == create_format_info(Head(fs))
         IN  IF r.tag = "KeyError" THEN r
             ELSE LET rest == process_formats(Tail(fs))
                  IN  IF rest.tag = "KeyError" THEN rest
                      ELSE [tag |-> "list",
                            value |->
                              (IF r.tag = "dict" /\ is_valid_format(r.value)
                               THEN <<r.value>> ELSE <<>>) \o rest.value]

\* extract_formats up to its last line: the list it hands to
\* deduplicate_and_sort_formats, or the KeyError that ends it
build_formats(raw) ==
    LET processed == process_formats(raw)
        combined == create_combined_formats(raw)
    IN  IF processed.tag = "KeyError" THEN processed
        ELSE IF combined.tag = "KeyError" THEN combined
        ELSE [tag |-> "list",
              value |-> <<mp3_option>> \o processed.value \o combined.value \o auto_formats]

----------------------------------------------------------------------------
(* Raw descriptors the engine may return                                   *)

MaxFormats == 2

FormatIds == { <<"1","3","7">>, <<"2","4","8">> }

DescriptorShapes ==
    { [vcodec |-> "avc1", acodec |-> "none", height |-> 1080, ext |-> "mp4", filesize |-> 1536],
      [vcodec |-> "avc1", acodec |-> "none", height |-> 240],
      [vcodec |-> "vp9", acodec |-> "none", height |-> 2160, ext |-> "webm"],
      [vcodec |-> "vp9", acodec |-> "none", height |-> 1440],
      [vcodec |-> "avc1", acodec |-> "none"],
      [vcodec |-> "avc1", acodec |-> "mp4a", height |-> 1080],
      [vcodec |-> "avc1", acodec |-> "mp4a", height |-> 720, format_note |-> <<"7","2","0","p">>],
      [vcodec |-> "avc1", acodec |-> "mp4a", height |-> 1080, format_note |-> <<"7","2","0","p","6","0">>],
      [vcodec |-> "avc1", acodec |-> "mp4a", format_note |-> <<"7","2","0","p","6","0">>],
      [vcodec |-> "avc1", acodec |-> "mp4a", format_note |-> <<"4","K"," ","U","L","T","R","A"," ","(","+","A","U","D","I","O",")">>],
      [vcodec |-> "avc1", acodec |-> "mp4a", height |-> 5000, format_note |-> <<"4","k"," ","u","l","t","r","a"," ","(","+","a","u","d","i","o",")">>],
      [vcodec |-> "none", acodec |-> "mp4a", abr |-> 128],
      [vcodec |-> "none", acodec |-> "mp4a", abr |-> 32],
      [vcodec |-> "avc1", acodec |-> "mp4a", format_note |-> <<"M","P","3"," ","A","u","d","i","o"," ","(","1","9","2","k","b","p","s",")">>],
      [vcodec |-> "none", acodec |-> "none"] }

Descriptors ==
    { s @@ [format_id |-> id] : s \in DescriptorShapes, id \in FormatIds }
    \cup { [format_id |-> <<"s","b","0">>, vcodec |-> "none", acodec |-> "none", format_note |-> <<"s","t","o","r","y","b","o","a","r","d">>],
           [format_id |-> <<"s","b","1">>, vcodec |-> "avc1", acodec |-> "mp4a", height |-> 1080] }
    \cup { [vcodec |-> "avc1", acodec |-> "none", height |-> 1080],
           [vcodec |-> "none", acodec |-> "mp4a", abr |-> 128] }

RawLists == UNION { [1..n -> Descriptors] : n \in 0..MaxFormats }

----------------------------------------------------------------------------
(* The catalog query                                                       *)

Pending == [tag |-> "pending"]

\* no download call is under way
NoDownload ==
    /\ cookies_file = <<>>
    /\ url = <<>>
    /\ format_id = <<>>
    /\ download_type = "video"
    /\ progress_callback = FALSE
    /\ pc = "idle"
    /\ ydl_opts = <<>>
    /\ hooked = <<>>
    /\ events = <<>>
    /\ filename = <<>>
    /\ files = {}
    /\ result = Pending

Init ==
    /\ info \in RawLists
    /\ formats = <<>>
    /\ catalog = Pending
    /\ NoDownload

\* extract_formats(info), whole
ExtractFormats ==
    /\ catalog = Pending
    /\ LET built == build_formats(info)
       IN  IF built.tag = "KeyError"
           THEN /\ catalog' = [tag |-> "raised", error |-> "KeyError"]
                /\ formats' = formats
           ELSE /\ catalog' = [tag |-> "returned", value |-> deduplicate_and_sort_formats(built.value)]
                /\ formats' = built.value
    /\ UNCHANGED <<info, download_vars>>

Next == ExtractFormats

Spec == Init /\ [][Next]_vars

----------------------------------------------------------------------------
(* Properties of the catalog                                               *)

Returned == catalog.tag = "returned"

\* the least index of option o in the list s (0 when it is not there)
PosIn(o, s) ==
    IF \E k \in 1..Len(s) : s[k] = o
    THEN CHOOSE k \in 1..Len(s) : s[k] = o /\ \A m \in 1..(k - 1) : s[m] # o
    ELSE 0

\* C1: the catalog extract_formats returns holds no two options with the same
\* (resolution label, media kind, quality score) triple.
C1_UniqueTriples ==
    Returned =>
        \A i, j \in 1..Len(catalog.value) :
            i # j =>
                <<catalog.value[i].resolution, catalog.value[i].type, catalog.value[i].quality>>
                    # <<catalog.value[j].resolution, catalog.value[j].type, catalog.value[j].quality>>

\* C1's case: the list built had two options with one triple, and a catalog came back
C1_Witness ==
    /\ Returned
    /\ \E i, j \in 1..Len(formats) :
          /\ i < j
          /\ formats[i].resolution = formats[j].resolution
          /\ formats[i].type = formats[j].type
          /\ formats[i].quality = formats[j].quality
          /\ formats[i].format_id # formats[j].format_id

endswith(s, suffix) ==
    Len(s) >= Len(suffix) /\ SubSeq(s, Len(s) - Len(suffix) + 1, Len(s)) = suffix

\* where an option was constructed: 0 the mp3 seed, 1 a raw descriptor,
\* 2 a combined option, 3 an auto sentinel
OriginOf(o) ==
    IF o.format_id = <<"m","p","3">> THEN 0
    ELSE IF o.format_id \in { <<"b","e","s","t">>, <<"b","e","s","t","v","i","d","e","o","+","b","e","s","t","a","u","d","i","o">>,
                              <<"b","e","s","t","v","i","d","e","o","[","h","e","i","g","h","t","<","=","1","0","8","0","]","+","b","e","s","t","a","u","d","i","o","/","b","e","s","t","[","h","e","i","g","h","t","<","=","1","0","8","0","]">>,
                              <<"b","e","s","t","v","i","d","e","o","[","h","e","i","g","h","t","<","=","2","1","6","0","]","+","b","e","s","t","a","u","d","i","o","/","b","e","s","t","[","h","e","i","g","h","t","<","=","2","1","6","0","]">> } THEN 3
    ELSE IF endswith(o.format_id, <<"+","b","e","s","t","a","u","d","i","o">>)
            \/ o.format_id = <<"b","e","s","t","v","i","d","e","o","[","h","e","i","g","h","t",">","=","2","1","6","0","]","+","b","e","s","t","a","u","d","i","o","/","b","e","s","t","[","h","e","i","g","h","t",">","=","2","1","6","0","]">> THEN 2
    ELSE 1

\* the least index of a raw descriptor that option o was made from
RawIndexOf(o) ==
    CHOOSE k \in 1..Len(info) :
        /\ create_format_info(info[k]) = [tag |-> "dict", value |-> o]
        /\ \A m \in 1..(k - 1) : create_format_info(info[m]) # [tag |-> "dict", value |-> o]

\* C2: the catalog is ordered by quality score descending, and two options of
\* equal score keep the order of their construction: the mp3 seed, then the raw
\* descriptors in input order, then the combined options, then the auto sentinels.
C2_SortedStable ==
    Returned =>
        \A i, j \in 1..Len(catalog.value) :
            i < j =>
                LET a == catalog.value[i]
                    b == catalog.value[j]
                IN  /\ a.quality >= b.quality
                    /\ a.quality = b.quality =>
                          /\ PosIn(a, formats) < PosIn(b, formats)
                          /\ OriginOf(a) <= OriginOf(b)
                          /\ OriginOf(a) = 1 /\ OriginOf(b) = 1 => RawIndexOf(a) <= RawIndexOf(b)

\* C2's case: a catalog with two options of one quality score, built from raw
\* descriptors at different places of the input
C2_Witness ==
    /\ Returned
    /\ \E i, j \in 1..Len(catalog.value) :
          /\ i < j
          /\ catalog.value[i].quality = catalog.value[j].quality
          /\ OriginOf(catalog.value[i]) = 1
          /\ OriginOf(catalog.value[j]) = 1
          /\ RawIndexOf(catalog.value[i]) < RawIndexOf(catalog.value[j])

FixedEntries ==
    { <<<<"m","p","3">>, 1>>, <<<<"b","e","s","t">>, 10000>>, <<<<"b","e","s","t","v","i","d","e","o","+","b","e","s","t","a","u","d","i","o">>, 15000>>,
      <<<<"b","e","s","t","v","i","d","e","o","[","h","e","i","g","h","t","<","=","1","0","8","0","]","+","b","e","s","t","a","u","d","i","o","/","b","e","s","t","[","h","e","i","g","h","t","<","=","1","0","8","0","]">>, 1080>>,
      <<<<"b","e","s","t","v","i","d","e","o","[","h","e","i","g","h","t","<","=","2","1","6","0","]","+","b","e","s","t","a","u","d","i","o","/","b","e","s","t","[","h","e","i","g","h","t","<","=","2","1","6","0","]">>, 2160>>,
      <<<<"b","e","s","t","v","i","d","e","o","[","h","e","i","g","h","t",">","=","2","1","6","0","]","+","b","e","s","t","a","u","d","i","o","/","b","e","s","t","[","h","e","i","g","h","t",">","=","2","1","6","0","]">>, 5000>> }

\* C3: every catalog holds the six fixed entries with their scores, whatever the
\* raw descriptors are, and the catalog of an empty raw list is exactly these six.
C3_FixedEntriesPresent ==
    Returned =>
        /\ \A e \in FixedEntries :
              \E k \in 1..Len(catalog.value) :
                  catalog.value[k].format_id = e[1] /\ catalog.value[k].quality = e[2]
        /\ info = <<>> => Len(catalog.value) = Cardinality(FixedEntries)

\* C3's case: a raw descriptor whose note is the label of the '4K ULTRA (+AUDIO)'
\* entry, with audio and video and a height of 5000, went through the build
C3_Witness ==
    /\ Returned
    /\ \E k \in 1..Len(info) :
          /\ upper(Get(info[k], "format_note", <<>>)) = <<"4","K"," ","U","L","T","R","A"," ","(","+","A","U","D","I","O",")">>
          /\ Get(info[k], "height", 0) = 5000
          /\ get_format_type(info[k]) = "video+audio"

\* a video-only raw descriptor (video codec present, audio codec absent) of height >= 360
IsVideoOnly360(f) ==
    /\ Get(f, "vcodec", "") # "none"
    /\ Get(f, "acodec", "") = "none"
    /\ Get(f, "height", 0) >= 360

\* C4 as claimed: every video-only descriptor of height >= 360 has its own
\* id + '+bestaudio' option of quality height + 1000 in the catalog, also when
\* several video-only descriptors share a height.
C4_Original ==
    Returned =>
        \A i \in 1..Len(info) :
            IsVideoOnly360(info[i]) =>
                \E k \in 1..Len(catalog.value) :
                    /\ catalog.value[k].format_id = info[i]["format_id"] \o <<"+","b","e","s","t","a","u","d","i","o">>
                    /\ catalog.value[k].quality = info[i]["height"] + 1000

\* C4, amended: for every video-only descriptor of height h >= 360 the catalog
\* holds exactly one option labelled "{h}p (+AUDIO)" of quality h + 1000, and its
\* identifier is id + '+bestaudio' for the first video-only descriptor of height h
\* in the raw list.
C4_CombinedPerHeight ==
    Returned =>
        \A i \in 1..Len(info) :
            IsVideoOnly360(info[i]) =>
                LET h == info[i]["height"]
                    first == CHOOSE j \in 1..i :
                                /\ IsVideoOnly360(info[j]) /\ info[j]["height"] = h
                                /\ \A m \in 1..(j - 1) :
                                      ~(IsVideoOnly360(info[m]) /\ info[m]["height"] = h)
                    hits == {k \in 1..Len(catalog.value) :
                                /\ catalog.value[k].resolution = str(h) \o <<"p"," ","(","+","A","U","D","I","O",")">>
                                /\ catalog.value[k].quality = h + 1000}
                IN  /\ Cardinality(hits) = 1
                    /\ \A k \in hits :
                          catalog.value[k].format_id = info[first]["format_id"] \o <<"+","b","e","s","t","a","u","d","i","o">>

\* C4's case: two video-only descriptors of one height >= 360 with different
\* identifiers went through the build
C4_Witness ==
    /\ Returned
    /\ \E i, j \in 1..Len(info) :
          /\ i < j
          /\ IsVideoOnly360(info[i])
          /\ IsVideoOnly360(info[j])
          /\ info[i]["height"] = info[j]["height"]
          /\ info[i]["format_id"] # info[j]["format_id"]

\* a pure-audio raw descriptor: audio codec present, video codec absent
IsPureAudio(f) == Get(f, "acodec", "") # "none" /\ Get(f, "vcodec", "") = "none"

\* C5: a pure-audio descriptor is left out of the catalog when its audio bitrate
\* is below 50 and is in the catalog as an 'audio' option when it is 50 or more.
C5_AudioFloor ==
    Returned =>
        \A i \in 1..Len(info) :
            IsPureAudio(info[i]) =>
                LET listed == \E k \in 1..Len(catalog.value) :
                                  /\ catalog.value[k].format_id = info[i]["format_id"]
                                  /\ catalog.value[k].type = "audio"
                IN  /\ Get(info[i], "abr", 0) < 50 => ~listed
                    /\ Get(info[i], "abr", 0) >= 50 => listed

\* the raw list without its k-th descriptor
Without(s, k) == SubSeq(s, 1, k - 1) \o SubSeq(s, k + 1, Len(s))

\* C6: with one raw descriptor that has no format identifier the build does not
\* fail: it returns the catalog of the list without that descriptor.
C6_MissingIdSkipped ==
    \A k \in 1..Len(info) :
        /\ catalog # Pending
        /\ "format_id" \notin DOMAIN info[k]
        /\ \A m \in 1..Len(info) : m # k => "format_id" \in DOMAIN info[m]
        => /\ Returned
           /\ catalog.value = deduplicate_and_sort_formats(build_formats(Without(info, k)).value)

\* the label create_format_info hands to get_quality_value: the descriptor's
\* note, or f"{height}p" when there is no note, with the (4K) / (2K) annotation
label_of(format_dict) ==
    LET height == Get(format_dict, "height", 0)
        note0 == Get(format_dict, "format_note", unknown_note)
    IN  annotate_resolution(IF note0 = unknown_note /\ height # 0
                            THEN str(height) \o <<"p">> ELSE note0, height)

\* the fallback chain, in order: the table value of the upper-cased label, the
\* integer that precedes "p" in the label, the raw height, 0
fallback_chain(label, format_dict) ==
    IF \E e \in resolution_map : e[1] = upper(label)
    THEN MapGet(resolution_map, upper(label), 0)
    ELSE IF re_search_digits_p(label) # <<>> THEN int(re_search_digits_p(label)[1])
    ELSE Get(format_dict, "height", 0)

\* C11: the quality score of the option built from a raw descriptor follows the
\* fallback chain in order: the table value of the upper-cased label, else the
\* integer before "p" in the label (a label '720p60' scores 720 whatever the
\* height is, also without one), else the raw height, else 0.
C11_QualityFallbackChain ==
    Returned =>
        \A i \in 1..Len(info) :
            LET made == create_format_info(info[i])
            IN  made.tag = "dict" /\ is_valid_format(made.value) =>
                    \E k \in 1..Len(formats) :
                        formats[k] = [made.value EXCEPT
                                         !.quality = fallback_chain(label_of(info[i]), info[i])]

----------------------------------------------------------------------------
(* The download call: paths, engine configuration, progress hook           *)

\* the greatest index of character c in s (0 when it is not there): s.rfind(c)
LastIndexOf(s, c) ==
    IF \E i \in 1..Len(s) : s[i] = c
    THEN CHOOSE i \in 1..Len(s) : s[i] = c /\ \A k \in (i + 1)..Len(s) : s[k] # c
    ELSE 0

\* the least index of character c in s (0 when it is not there): s.find(c)
FirstIndexOf(s, c) ==
    IF \E i \in 1..Len(s) : s[i] = c
    THEN CHOOSE i \in 1..Len(s) : s[i] = c /\ \A k \in 1..(i - 1) : s[k] # c
    ELSE 0

\* os.path.splitext(path): <<root, ext>>; the last dot of the last component
\* splits, unless only dots come before it there
splitext(path) ==
    LET sep == LastIndexOf(path, "/")
        dot == LastIndexOf(path, ".")
    IN  IF dot > sep /\ \E k \in (sep + 1)..(dot - 1) : path[k] # "."
        THEN <<SubSeq(path, 1, dot - 1), SubSeq(path, dot, Len(path))>>
        ELSE <<path, <<>>>>

\* os.path.basename(path)
basename(path) == SubSeq(path, LastIndexOf(path, "/") + 1, Len(path))

\* os.path.join(folder, name) for a relative name
path_join(folder, name) ==
    IF folder = <<>> \/ folder[Len(folder)] = "/" THEN folder \o name
    ELSE folder \o <<"/">> \o name

possible_paths ==
    <<"cookies.txt", "cookies/cookies.txt", "~/.config/yt-dlp/cookies.txt", "/etc/yt-dlp/cookies.txt">>

\* get_cookies_file, with `existing` the paths os.path.exists finds
get_cookies_file(existing) ==
    LET found == {i \in 1..Len(possible_paths) : possible_paths[i] \in existing}
    IN  IF found = {} THEN <<>>
        ELSE <<possible_paths[CHOOSE i \in found : \A j \in found : i <= j]>>

fix_shorts_url(u) ==
    IF contains(u, <<"y","o","u","t","u","b","e",".","c","o","m","/","s","h","o","r","t","s","/">>)
    THEN LET last == SubSeq(u, LastIndexOf(u, "/") + 1, Len(u))
             q == FirstIndexOf(last, "?")
             video_id == IF q = 0 THEN last ELSE SubSeq(last, 1, q - 1)
         IN  <<"h","t","t","p","s",":","/","/","w","w","w",".","y","o","u","t","u","b","e",".","c","o","m","/","w","a","t","c","h","?","v","=">> \o video_id
    ELSE u

\* dict.update: the keys of `more` replace those of `base`
update(base, more) == more @@ base

get_extractor_opts(u) ==
    LET opts == [quiet |-> TRUE, no_warnings |-> FALSE, extract_flat |-> FALSE]
        with_cookies ==
            IF cookies_file # <<>> THEN update(opts, [cookiefile |-> cookies_file[1]]) ELSE opts
    IN  IF contains(u, <<"y","o","u","t","u","b","e",".","c","o","m">>) \/ contains(u, <<"y","o","u","t","u",".","b","e">>)
        THEN update(with_cookies,
                    [extractor_args |->
                        [youtube |->
                            [player_client |-> <<"web", "android", "ios">>,
                             player_skip |-> <<"configs">>,
                             formats |-> <<"best", "4k", "1080p", "720p", "480p", "360p">>]]])
        ELSE IF contains(u, <<"f","a","c","e","b","o","o","k",".","c","o","m">>) \/ contains(u, <<"f","b",".","c","o","m">>)
        THEN update(with_cookies, [extractor_args |-> [facebook |-> [credentials |-> <<>>]]])
        ELSE IF contains(u, <<"i","n","s","t","a","g","r","a","m",".","c","o","m">>)
        THEN update(with_cookies, [extractor_args |-> [instagram |-> [shortcode_match |-> TRUE]]])
        ELSE with_cookies

\* the URL get_download_options hands to get_extractor_opts
options_url == <<>>

\* progress_hooks holds the one hook, bound to the observer given (or to None)
get_download_options(dl_type, fmt, downloads_folder, callback) ==
    LET base_opts ==
            [outtmpl |-> path_join(downloads_folder, <<"%","(","t","i","t","l","e",")","s",".","%","(","e","x","t",")","s">>),
             progress_hooks |-> <<[hook |-> "progress_hook", progress_callback |-> callback]>>,
             quiet |-> TRUE,
             no_warnings |-> FALSE]
        with_platform == update(base_opts, get_extractor_opts(options_url))
    IN  IF dl_type = "audio" \/ fmt = <<"m","p","3">>
        THEN update(with_platform,
                    [format |-> <<"b","e","s","t","a","u","d","i","o","/","b","e","s","t">>,
                     postprocessors |->
                        <<[key |-> "FFmpegExtractAudio", preferredcodec |-> "mp3",
                           preferredquality |-> "192"]>>])
        ELSE update(with_platform,
                    [format |-> fmt,
                     merge_output_format |-> "mp4",
                     postprocessors |->
                        <<[key |-> "FFmpegVideoConvertor", preferedformat |-> "mp4"]>>])

\* round(n / d, 1) in tenths, n / d being ten times the value rounded: the
\* nearest integer to n / d, a tie going to the even one
RoundTenths(n, d) ==
    LET q == n \div d
        r == n % d
    IN  IF 2 * r < d THEN q
        ELSE IF 2 * r > d THEN q + 1
        ELSE IF q % 2 = 0 THEN q ELSE q + 1

\* the percent of a 'downloading' event, in tenths of a percent:
\* round((downloaded_bytes / total_bytes) * 100, 1), and 0 when total_bytes is 0
percent_of(downloaded_bytes, total_bytes) ==
    IF total_bytes > 0 THEN RoundTenths(1000 * downloaded_bytes, total_bytes) ELSE 0

\* progress_hook(d, progress_callback) up to the call of progress_callback.
\* In d a number n is <<n>> and None is <<>>.  [tag |-> "event", value |-> the
\* progress_info], [tag |-> "none"] for a status the hook ignores, and
\* [tag |-> "TypeError"] when total_bytes is None at "total_bytes > 0".
\* percent is in tenths of a percent.
progress_hook(d) ==
    IF d.status = "downloading"
    THEN LET first == Get(d, "total_bytes", <<>>)
             total_bytes ==
                IF first # <<>> /\ first[1] # 0 THEN first
                ELSE Get(d, "total_bytes_estimate", <<0>>)
             downloaded_bytes == Get(d, "downloaded_bytes", <<0>>)
             speed == Get(d, "speed", <<0>>)
             eta == Get(d, "eta", <<0>>)
         IN  IF total_bytes = <<>> THEN [tag |-> "TypeError"]
             ELSE [tag |-> "event",
                   value |->
                     [status |-> "downloading",
                      percent |-> percent_of(downloaded_bytes[1], total_bytes[1]),
                      speed |-> IF speed # <<>> /\ speed[1] # 0
                                THEN OneDecimal(speed[1], 1024 * 1024) \o <<" ","M","B","/","s">>
                                ELSE <<"0"," ","M","B","/","s">>,
                      eta |-> IF eta # <<>> /\ eta[1] # 0
                              THEN str(eta[1]) \o <<" ","s","e","c","o","n","d","s">> ELSE <<"U","n","k","n","o","w","n">>,
                      filesize |-> format_filesize(total_bytes),
                      filename |-> basename(Get(d, "filename", <<>>)),
                      message |-> <<"D","o","w","n","l","o","a","d","i","n","g",".",".",".">>]]
    ELSE IF d.status = "finished"
    THEN [tag |-> "event",
          value |->
            [status |-> "completed",
             percent |-> 1000,
             speed |-> <<"0"," ","M","B","/","s">>,
             eta |-> <<"0"," ","s","e","c","o","n","d","s">>,
             filesize |-> format_filesize(Get(d, "total_bytes", <<0>>)),
             filename |-> basename(Get(d, "filename", <<>>)),
             message |-> <<"D","o","w","n","l","o","a","d"," ","c","o","m","p","l","e","t","e","d","!">>]]
    ELSE [tag |-> "none"]

\* the event of download's except branch
error_event(text) == [status |-> "error", message |-> <<"D","o","w","n","l","o","a","d"," ","f","a","i","l","e","d",":"," ">> \o text]

alternate_exts == << <<".","m","p","4">>, <<".","m","k","v">>, <<".","w","e","b","m">>, <<".","m","4","a">> >>

\* download after the engine returned: the path it returns, or None.
\* `existing` is the set of paths os.path.exists finds.
resolve_file(dl_type, fmt, name, existing) ==
    LET base_name == splitext(name)[1]
        mp3_file == base_name \o <<".","m","p","3">>
        found == {i \in 1..Len(alternate_exts) : (base_name \o alternate_exts[i]) \in existing}
    IN  IF dl_type = "audio" \/ fmt = <<"m","p","3">>
        THEN IF mp3_file \in existing THEN [tag |-> "path", value |-> mp3_file]
             ELSE [tag |-> "path", value |-> name]
        ELSE IF name \in existing THEN [tag |-> "path", value |-> name]
        ELSE IF found # {}
        THEN [tag |-> "path",
              value |-> base_name \o alternate_exts[CHOOSE i \in found : \A j \in found : i <= j]]
        ELSE [tag |-> "None"]

----------------------------------------------------------------------------
(* Inputs of a download call                                               *)

MaxEvents == 2
MaxFiles == 1

Urls ==
    { <<"h","t","t","p","s",":","/","/","w","w","w",".","y","o","u","t","u","b","e",".","c","o","m","/","w","a","t","c","h","?","v","=","a","b","c">>,
      <<"h","t","t","p","s",":","/","/","y","o","u","t","u",".","b","e","/","a","b","c">>,
      <<"h","t","t","p","s",":","/","/","w","w","w",".","y","o","u","t","u","b","e",".","c","o","m","/","s","h","o","r","t","s","/","a","b","c","1","2","3","?","x","=","1">>,
      <<"h","t","t","p","s",":","/","/","w","w","w",".","f","a","c","e","b","o","o","k",".","c","o","m","/","w","a","t","c","h","/","1">>,
      <<"h","t","t","p","s",":","/","/","f","b",".","c","o","m","/","1">>,
      <<"h","t","t","p","s",":","/","/","w","w","w",".","i","n","s","t","a","g","r","a","m",".","c","o","m","/","p","/","x","/">>,
      <<"h","t","t","p","s",":","/","/","w","w","w",".","t","i","k","t","o","k",".","c","o","m","/","@","u","/","v","i","d","e","o","/","1">> }

RequestedFormats == { <<"m","p","3">>, <<"1","3","7","+","b","e","s","t","a","u","d","i","o">> }

downloads_folder == <<"d">>

CookieJars == { {}, {"cookies/cookies.txt", "/etc/yt-dlp/cookies.txt"} }

\* a raw 'downloading' event of the engine with n bytes downloaded
Downloading(n) ==
    [status |-> "downloading", downloaded_bytes |-> <<n>>, filename |-> <<"d","/","a",".","w","e","b","m">>,
     speed |-> <<1572864>>, eta |-> <<7>>]

RawEvents ==
    UNION { { Downloading(n),
              Downloading(n) @@ [total_bytes |-> <<10>>],
              Downloading(n) @@ [total_bytes |-> <<>>, total_bytes_estimate |-> <<10>>],
              Downloading(n) @@ [total_bytes |-> <<0>>, total_bytes_estimate |-> <<0>>],
              Downloading(n) @@ [total_bytes_estimate |-> <<>>] } : n \in {5, 20} }
    \cup { [status |-> "downloading"],
           [status |-> "finished", total_bytes |-> <<10>>, filename |-> <<"d","/","a",".","w","e","b","m">>],
           [status |-> "error"] }

PredictedNames == { <<"d","/","a",".","w","e","b","m">>, <<"d","/","a",".","m","p","4">> }

Paths == { <<"d","/","a",".","w","e","b","m">>, <<"d","/","a",".","m","p","4">>, <<"d","/","a",".","m","k","v">>, <<"d","/","a",".","m","4","a">>, <<"d","/","a",".","m","p","3">>, <<"d","/","a",".","o","p","u","s">> }

FileSets == { s \in SUBSET Paths : Cardinality(s) <= MaxFiles }

----------------------------------------------------------------------------
(* The download call                                                       *)

DownloadInit ==
    /\ info = <<>>
    /\ formats = <<>>
    /\ catalog = Pending
    /\ \E jar \in CookieJars : cookies_file = get_cookies_file(jar)
    /\ url \in Urls
    /\ format_id \in RequestedFormats
    /\ download_type \in {"audio", "video"}
    /\ progress_callback \in BOOLEAN
    /\ pc = "called"
    /\ ydl_opts = <<>>
    /\ hooked = <<>>
    /\ events = <<>>
    /\ filename = <<>>
    /\ files = {}
    /\ result = Pending

\* download's except branch: the observer, if any, gets the error event, and
\* the call returns None
Except(text) ==
    /\ events' = IF progress_callback THEN Append(events, error_event(text)) ELSE events
    /\ result' = [tag |-> "None"]
    /\ pc' = "raised"

\* download up to the engine call: fix_shorts_url, os.makedirs, get_download_options
StartEngine ==
    /\ pc = "called"
    /\ url' = fix_shorts_url(url)
    /\ ydl_opts' = get_download_options(download_type, format_id, downloads_folder, progress_callback)
    /\ pc' = "engine"
    /\ UNCHANGED <<cookies_file, format_id, download_type, progress_callback,
                   hooked, events, filename, files, result>>
    /\ UNCHANGED catalog_vars

\* os.makedirs raises
MakedirsRaises ==
    /\ pc = "called"
    /\ url' = fix_shorts_url(url)
    /\ Except(<<"P","e","r","m","i","s","s","i","o","n"," ","d","e","n","i","e","d">>)
    /\ UNCHANGED <<cookies_file, format_id, download_type, progress_callback,
                   ydl_opts, hooked, filename, files>>
    /\ UNCHANGED catalog_vars

\* the engine calls the progress hook with raw event d; a TypeError of the hook
\* leaves the engine call and ends in download's except branch
HookCalled(d) ==
    /\ pc = "engine"
    /\ Len(hooked) < MaxEvents
    /\ LET out == progress_hook(d)
       IN  /\ hooked' = Append(hooked, [raw |-> d, out |-> out])
           /\ IF out.tag = "TypeError"
              THEN Except(<<"'",">","'"," ","n","o","t"," ","s","u","p","p","o","r","t","e","d"," ","b","e","t","w","e","e","n"," ","i","n","s","t","a","n","c","e","s"," ","o","f"," ","'","N","o","n","e","T","y","p","e","'"," ","a","n","d"," ","'","i","n","t","'">>)
              ELSE /\ events' = IF out.tag = "event" /\ progress_callback
                                THEN Append(events, out.value) ELSE events
                   /\ UNCHANGED <<result, pc>>
    /\ UNCHANGED <<cookies_file, url, format_id, download_type, progress_callback,
                   ydl_opts, filename, files>>
    /\ UNCHANGED catalog_vars

\* ydl.extract_info raises
EngineRaises ==
    /\ pc = "engine"
    /\ Except(<<"E","R","R","O","R",":"," ","u","n","a","b","l","e"," ","t","o"," ","d","o","w","n","l","o","a","d"," ","v","i","d","e","o"," ","d","a","t","a">>)
    /\ UNCHANGED <<cookies_file, url, format_id, download_type, progress_callback,
                   ydl_opts, hooked, filename, files>>
    /\ UNCHANGED catalog_vars

\* ydl.extract_info returns: prepare_filename gives name, the paths in existing
\* exist, and download resolves the file and returns
EngineReturns(name, existing) ==
    /\ pc = "engine"
    /\ filename' = name
    /\ files' = existing
    /\ result' = resolve_file(download_type, format_id, name, existing)
    /\ pc' = "returned"
    /\ UNCHANGED <<cookies_file, url, format_id, download_type, progress_callback,
                   ydl_opts, hooked, events>>
    /\ UNCHANGED catalog_vars

DownloadNext ==
    \/ StartEngine
    \/ MakedirsRaises
    \/ \E d \in RawEvents : HookCalled(d)
    \/ EngineRaises
    \/ \E name \in PredictedNames, existing \in FileSets : EngineReturns(name, existing)

DownloadSpec == DownloadInit /\ [][DownloadNext]_vars

----------------------------------------------------------------------------
(* Properties of the download call                                         *)

\* C7: a download call with an observer that ends in failure (the engine call
\* raised, or it returned and no output file was found) has sent the observer an
\* event of status 'error', and that event is the last one the observer got.
C7_ErrorEventOnFailure ==
    pc \in {"returned", "raised"} /\ progress_callback /\ result.tag = "None"
        => events # <<>> /\ events[Len(events)].status = "error"

\* the request is an audio request
IsAudioRequest == download_type = "audio" \/ format_id = <<"m","p","3">>

\* the paths download is to probe after the engine returned
ProbedPaths ==
    LET base_name == splitext(filename)[1]
    IN  IF IsAudioRequest THEN {base_name \o <<".","m","p","3">>, filename}
        ELSE {filename} \cup {base_name \o e : e \in { <<".","m","p","4">>, <<".","m","k","v">>, <<".","w","e","b","m">>, <<".","m","4","a">> }}

\* C8: after a successful engine call download returns a path only if a file
\* exists there, and returns None when none of the probed paths exists, for
\* audio and for video requests.
C8_ReturnedPathExists ==
    pc = "returned" =>
        /\ result.tag = "path" => result.value \in files
        /\ ProbedPaths \cap files = {} => result.tag = "None"

\* the platforms the engine configuration holds extraction hints for
HintedPlatforms ==
    IF "extractor_args" \in DOMAIN ydl_opts THEN DOMAIN ydl_opts["extractor_args"] ELSE {}

\* C9: the engine configuration download builds holds the extraction hints of
\* the URL's platform: the preferred-client list for 'youtube.com' / 'youtu.be',
\* credential suppression for 'facebook.com' / 'fb.com', shortcode matching for
\* 'instagram.com', and none for any other URL.
C9_PlatformHints ==
    DOMAIN ydl_opts # {} =>
        /\ HintedPlatforms =
              IF contains(url, <<"y","o","u","t","u","b","e",".","c","o","m">>) \/ contains(url, <<"y","o","u","t","u",".","b","e">>) THEN {"youtube"}
              ELSE IF contains(url, <<"f","a","c","e","b","o","o","k",".","c","o","m">>) \/ contains(url, <<"f","b",".","c","o","m">>) THEN {"facebook"}
              ELSE IF contains(url, <<"i","n","s","t","a","g","r","a","m",".","c","o","m">>) THEN {"instagram"}
              ELSE {}
        /\ "youtube" \in HintedPlatforms =>
              "player_client" \in DOMAIN ydl_opts["extractor_args"]["youtube"]
        /\ "facebook" \in HintedPlatforms =>
              "credentials" \in DOMAIN ydl_opts["extractor_args"]["facebook"]
        /\ "instagram" \in HintedPlatforms =>
              "shortcode_match" \in DOMAIN ydl_opts["extractor_args"]["instagram"]

\* the total of a raw event is unknown or zero: neither total_bytes nor
\* total_bytes_estimate holds a number other than 0
TotalUnknownOrZero(d) ==
    /\ Get(d, "total_bytes", <<0>>) \in {<<>>, <<0>>}
    /\ Get(d, "total_bytes_estimate", <<0>>) \in {<<>>, <<0>>}

\* C10: the percent of the event progress_hook makes of a raw 'downloading'
\* event lies between 0 and 100 (0 and 1000 tenths), also when more bytes were
\* downloaded than the total or its estimate, and is 0 when the total is unknown
\* or zero.
C10_PercentInRange ==
    \A i \in 1..Len(hooked) :
        hooked[i].raw.status = "downloading" /\ hooked[i].out.tag = "event" =>
            /\ hooked[i].out.value.percent >= 0
            /\ hooked[i].out.value.percent <= 1000
            /\ TotalUnknownOrZero(hooked[i].raw) => hooked[i].out.value.percent = 0

====
